---------------------------- MODULE Spec2Model ----------------------------
(***************************************************************************)
(* historian.utils (js/utils.js): the time-range filters inTimeRange and   *)
(* inTimeRangeMulti, calculateTotalCharge(Formatted), generateDerivative   *)
(* and toValidID.                                                          *)
(*                                                                         *)
(* Every behaviour is one call of one exported function.  Init draws the   *)
(* function and its arguments; the actions are the steps of its body.      *)
(* Arrays are sequences; array indices are the 0-based indices of the      *)
(* source, so element i of arr is arr[i + 1].  A returned array of entry   *)
(* references is the sequence of the indices, in data, of the entries it   *)
(* refers to (two equal entries at different positions stay distinct).     *)
(***************************************************************************)
EXTENDS Integers, Sequences, FiniteSets

VARIABLES fn,          \* the exported function being called
          data,        \* argument: the array of entries
          startTime,   \* argument: start of the query range
          endTime,     \* argument: end of the query range
          str,         \* argument of toValidID
          pc,          \* position in the function body
          left,        \* goog.array.binarySearch_: left (inclusive)
          right,       \* goog.array.binarySearch_: right (exclusive)
          found,       \* goog.array.binarySearch_: found
          startIndex,  \* inTimeRange: startIndex
          searches,    \* number of binary searches begun by this call
          i,           \* forEach index
          total,       \* calculateTotalCharge: total
          derivative,  \* generateDerivative: derivative
          ret,         \* the returned value
          err          \* the error thrown, or "none"

vars == <<fn, data, startTime, endTime, str, pc, left, right, found,
          startIndex, searches, i, total, derivative, ret, err>>

----------------------------------------------------------------------------
(* Bounds of the model. *)

\* Ordered data (sorted, endTime <= next startTime): times 0..MaxTime.
MaxTime == 4
\* Ordered data: at most MaxLen entries.
MaxLen == 3
\* Arbitrary data (unsorted, overlapping, inverted): times 0..MaxTimeAny.
MaxTimeAny == 3
\* Arbitrary data: at most MaxLenAny entries.
MaxLenAny == 2
\* Data of calculateTotalCharge: at most MaxLenCharge entries.
MaxLenCharge == 2

Min(a, b) == IF a <= b THEN a ELSE b
Max(a, b) == IF a >= b THEN a ELSE b

Entry(s, e, v) == [startTime |-> s, endTime |-> e, value |-> v]

\* Element i (0-based) of arr.
At(arr, k) == arr[k + 1]

\* All sequences over S of length at most n.
SeqsUpTo(S, n) == UNION {[1..k -> S] : k \in 0..n}

\* Sequences of at most n entries, sorted ascending by startTime, each with
\* endTime >= startTime and endTime <= the next startTime, all within t..hi.
RECURSIVE OrderedFrom(_, _, _)
OrderedFrom(t, hi, n) ==
  IF n = 0 THEN {<<>>}
  ELSE {<<>>} \cup
       UNION {UNION {{<<Entry(s, e, 0)>> \o rest :
                        rest \in OrderedFrom(e, hi, n - 1)} :
                     e \in s..hi} : s \in t..hi}

OrderedData == OrderedFrom(0, MaxTime, MaxLen)

AnyData == SeqsUpTo([startTime : 0..MaxTimeAny, endTime : 0..MaxTimeAny,
                     value : {0}], MaxLenAny)

\* The scenario of the documentation: three contiguous ten-unit entries.
ExampleData == <<Entry(0, 10, 0), Entry(10, 20, 0), Entry(20, 30, 0)>>
ExampleTimes == {0, 5, 10, 15, 20, 25, 30}

----------------------------------------------------------------------------
(* goog.math.Range, as used by inTimeRangeMulti. *)

\* new Range(a, b): start is the lesser, end the greater of a and b.
Range(a, b) == [start |-> Min(a, b), end |-> Max(a, b)]

\* Range.hasIntersection(a, b)
hasIntersection(a, b) == Max(a.start, b.start) <= Min(a.end, b.end)

\* Variant of inRangeTouchless that keeps entries touching the query.
inRangeTouchless_NoTouch(s, e, d) ==
  hasIntersection(Range(s, e), Range(d.startTime, d.endTime))

\* The filter callback of inTimeRangeMulti.
inRangeTouchless(s, e, d) ==
  /\ hasIntersection(Range(s, e), Range(d.startTime, d.endTime))
  /\ e # d.startTime
  /\ s # d.endTime

\* Array.prototype.filter: the indices of the elements that pass, in order;
\* arr is the receiver after the call.
RECURSIVE FilterIdx(_, _, _, _)
FilterIdx(s, e, arr, k) ==
  IF k >= Len(arr) THEN <<>>
  ELSE (IF inRangeTouchless(s, e, At(arr, k)) THEN <<k>> ELSE <<>>)
       \o FilterIdx(s, e, arr, k + 1)

inTimeRangeMulti(s, e, arr) == [arr |-> arr, ret |-> FilterIdx(s, e, arr, 0)]

----------------------------------------------------------------------------
(* inTimeRange. *)

\* Variant of OutsideData with strict comparisons.
OutsideData_Strict(s, e, arr) ==
  s > At(arr, Len(arr) - 1).endTime \/ e < At(arr, 0).startTime

\* The fast rejection: the range requested comes after the last end time or
\* before the first start time of the data.
OutsideData(s, e, arr) ==
  s >= At(arr, Len(arr) - 1).endTime \/ e <= At(arr, 0).startTime

\* goog.array.binarySearch's result: the index if found, else ~left.
SearchResult(f, l) == IF f = "true" THEN l ELSE -(l + 1)

\* Variant of StartIndexOf that keeps the insertion point.
StartIndexOf_NoDecrement(r) == IF r < 0 THEN -(r + 1) ELSE r

\* The start index from the result r of the search by startTime.
StartIndexOf(r) ==
  IF r < 0
  THEN (IF -(r + 1) # 0 THEN -(r + 1) - 1 ELSE 0)
  ELSE r

\* Variant of EndIndexOf that steps past an entry found.
EndIndexOf_Inclusive(r) == IF r < 0 THEN -(r + 1) ELSE r + 1

\* The end index from the result r of the search by endTime.
EndIndexOf(r) == IF r < 0 THEN -(r + 1) ELSE r

\* Variant of Clamp that does not clamp.
Clamp_None(k, len) == k

\* Array.prototype.slice's clamping of a relative index to 0..len.
Clamp(k, len) == IF k < 0 THEN Max(len + k, 0) ELSE Min(k, len)

\* Variant of array_slice that removes the elements from the receiver, as
\* Array.prototype.splice does.
array_slice_Splice(arr, start, end) ==
  LET k == Min(Max(start, 0), Len(arr))
      final == Min(Max(end, k), Len(arr))
  IN  [arr |-> SubSeq(arr, 1, k) \o SubSeq(arr, final + 1, Len(arr)),
       ret |-> [j \in 1..(final - k) |-> k + j - 1]]

\* goog.array.slice(arr, start, end): the indices start..end-1 after
\* clamping; arr is the receiver after the call.
array_slice(arr, start, end) ==
  LET k == Clamp(start, Len(arr))
      final == Clamp(end, Len(arr))
      count == Max(final - k, 0)
  IN  [arr |-> arr, ret |-> [j \in 1..count |-> k + j - 1]]


\* goog.array.binarySearch_: middle of left (inclusive) and right (exclusive).
Middle(l, r) == (l + r) \div 2

\* Variant of Compare with the operands exchanged.
Compare_Swapped(p, s, e, d) ==
  IF p = "searchStart" THEN d.startTime - s ELSE d.endTime - e

\* The comparators of inTimeRange, called as compareFn(target, arr[middle]):
\* by startTime in the first search, by endTime in the second.
Compare(p, s, e, d) ==
  IF p = "searchStart" THEN s - d.startTime ELSE e - d.endTime

----------------------------------------------------------------------------
(* The calls of the range filters. *)

Undefined == "undefined"

\* Numbers that need not be integers: a fraction num/den with den # 0, or
\* one of the IEEE values Infinity, -Infinity and NaN.
Num(n) == [kind |-> "finite", num |-> n, den |-> 1]
RECURSIVE Gcd(_, _)
Gcd(a, b) == IF b = 0 THEN a ELSE Gcd(b, a % b)
\* The fraction n/d, in lowest terms with a positive denominator.
Frac(n, d) ==
  LET g == Gcd(IF n < 0 THEN -n ELSE n, IF d < 0 THEN -d ELSE d)
      sg == IF d < 0 THEN -1 ELSE 1
  IN  [kind |-> "finite", num |-> sg * (n \div g), den |-> sg * (d \div g)]
Infinity == [kind |-> "Infinity", num |-> 0, den |-> 1]
NegInfinity == [kind |-> "-Infinity", num |-> 0, den |-> 1]
NaN == [kind |-> "NaN", num |-> 0, den |-> 1]

Locals0 ==
  /\ pc = "call"
  /\ left = 0
  /\ right = 0
  /\ found = Undefined
  /\ startIndex = 0
  /\ searches = 0
  /\ i = 0
  /\ total = Num(0)
  /\ derivative = <<>>
  /\ ret = Undefined
  /\ err = "none"

InitFilter ==
  /\ fn \in {"inTimeRange", "inTimeRangeMulti"}
  /\ \/ /\ data \in OrderedData
        /\ startTime \in 0..MaxTime
        /\ endTime \in 0..MaxTime
     \/ /\ data \in AnyData
        /\ startTime \in 0..MaxTimeAny
        /\ endTime \in 0..MaxTimeAny
     \/ /\ data = ExampleData
        /\ startTime \in ExampleTimes
        /\ endTime \in ExampleTimes
  /\ str = <<>>
  /\ Locals0

\* inTimeRange: data is empty, return [].
ReturnEmpty ==
  /\ pc = "call"
  /\ fn = "inTimeRange"
  /\ Len(data) = 0
  /\ ret' = <<>>
  /\ pc' = "done"
  /\ UNCHANGED <<fn, data, startTime, endTime, str, left, right, found,
                 startIndex, searches, i, total, derivative, err>>

\* inTimeRange: the range requested lies outside the data, return [].
ReturnOutside ==
  /\ pc = "call"
  /\ fn = "inTimeRange"
  /\ Len(data) # 0
  /\ OutsideData(startTime, endTime, data)
  /\ ret' = <<>>
  /\ pc' = "done"
  /\ UNCHANGED <<fn, data, startTime, endTime, str, left, right, found,
                 startIndex, searches, i, total, derivative, err>>

\* inTimeRange: begin the binary search of data by startTime.
BeginSearchStart ==
  /\ pc = "call"
  /\ fn = "inTimeRange"
  /\ Len(data) # 0
  /\ ~OutsideData(startTime, endTime, data)
  /\ left' = 0
  /\ right' = Len(data)
  /\ found' = Undefined
  /\ searches' = searches + 1
  /\ pc' = "searchStart"
  /\ UNCHANGED <<fn, data, startTime, endTime, str, startIndex, i, total,
                 derivative, ret, err>>

\* goog.array.binarySearch_: one iteration of the loop.  Reading arr[middle]
\* outside the array yields undefined, whose property read throws.
SearchStep ==
  /\ pc \in {"searchStart", "searchEnd"}
  /\ left < right
  /\ LET middle == Middle(left, right)
     IN  IF middle < 0 \/ middle >= Len(data)
         THEN /\ err' = "TypeError"
              /\ pc' = "threw"
              /\ UNCHANGED <<left, right, found>>
         ELSE LET compareResult ==
                    Compare(pc, startTime, endTime, At(data, middle))
              IN  /\ IF compareResult > 0
                     THEN /\ left' = middle + 1
                          /\ UNCHANGED <<right, found>>
                     ELSE /\ right' = middle
                          /\ found' = IF compareResult = 0
                                      THEN "true" ELSE "false"
                          /\ UNCHANGED left
                  /\ UNCHANGED <<pc, err>>
  /\ UNCHANGED <<fn, data, startTime, endTime, str, startIndex, searches, i,
                 total, derivative, ret>>

\* inTimeRange: the first search returned; set startIndex and begin the
\* binary search of data by endTime.
EndSearchStart ==
  /\ pc = "searchStart"
  /\ left >= right
  /\ startIndex' = StartIndexOf(SearchResult(found, left))
  /\ left' = 0
  /\ right' = Len(data)
  /\ found' = Undefined
  /\ searches' = searches + 1
  /\ pc' = "searchEnd"
  /\ UNCHANGED <<fn, data, startTime, endTime, str, i, total, derivative,
                 ret, err>>

\* inTimeRange: the second search returned; return the slice
\* data[startIndex .. endIndex].
EndSearchEnd ==
  /\ pc = "searchEnd"
  /\ left >= right
  /\ LET endIndex == EndIndexOf(SearchResult(found, left))
         sl == array_slice(data, startIndex, endIndex + 1)
     IN  /\ data' = sl.arr
         /\ ret' = sl.ret
  /\ pc' = "done"
  /\ UNCHANGED <<fn, startTime, endTime, str, left, right, found,
                 startIndex, searches, i, total, derivative, err>>

\* inTimeRangeMulti: filter data by the overlap test.
CallMulti ==
  /\ pc = "call"
  /\ fn = "inTimeRangeMulti"
  /\ LET r == inTimeRangeMulti(startTime, endTime, data)
     IN  /\ data' = r.arr
         /\ ret' = r.ret
  /\ pc' = "done"
  /\ UNCHANGED <<fn, startTime, endTime, str, left, right, found,
                 startIndex, searches, i, total, derivative, err>>

NextFilter ==
  \/ ReturnEmpty
  \/ ReturnOutside
  \/ BeginSearchStart
  \/ SearchStep
  \/ EndSearchStart
  \/ EndSearchEnd
  \/ CallMulti

Spec == InitFilter /\ [][NextFilter]_vars

\* A call runs to completion: the functions are synchronous and nothing
\* else is scheduled, so a step that can be taken is taken.
FairSpec == Spec /\ WF_vars(NextFilter)


----------------------------------------------------------------------------
(* calculateTotalCharge and calculateTotalChargeFormatted. *)

\* historian.time
MSECS_IN_SEC == 1000
SECS_IN_MIN == 60
MINS_IN_HOUR == 60
MSECS_IN_HOUR == 3600000

\* Values of the entries of the charge and derivative data.
Values == {-1, 0, 1}

ChargeData == SeqsUpTo([startTime : 0..MaxTimeAny, endTime : 0..MaxTimeAny,
                        value : Values], MaxLenCharge)

Abs(n) == IF n < 0 THEN -n ELSE n

\* x / y for an integer x and a fraction or zero y (IEEE division).
DivInt(x, y) ==
  IF y.num = 0
  THEN (IF x > 0 THEN Infinity ELSE IF x < 0 THEN NegInfinity ELSE NaN)
  ELSE Frac(x * y.den, y.num)

\* a + b (IEEE addition).
Add(a, b) ==
  IF a.kind = "NaN" \/ b.kind = "NaN" THEN NaN
  ELSE IF a.kind = "finite" /\ b.kind = "finite"
       THEN Frac(a.num * b.den + b.num * a.den, a.den * b.den)
  ELSE IF a.kind = "finite" THEN b
  ELSE IF b.kind = "finite" THEN a
  ELSE IF a.kind = b.kind THEN a
  ELSE NaN

\* a / n for an integer n > 0.
DivBy(a, n) == IF a.kind = "finite" THEN Frac(a.num, a.den * n) ELSE a

\* Variant of DurationOk that rejects an entry of no duration.
DurationOk_Strict(durationMs) == durationMs > 0

\* The condition calculateTotalCharge asserts of an entry's duration.
DurationOk(durationMs) == durationMs >= 0

\* The readings per second of an entry: zero for an entry of no duration.
Hz(durationMs) ==
  IF durationMs # 0 THEN Frac(MSECS_IN_SEC, durationMs) ELSE Num(0)

\* The decimal digits of n >= 0.
RECURSIVE Digits(_)
Digits(n) ==
  LET d == <<"0", "1", "2", "3", "4", "5", "6", "7", "8", "9">>
  IN  IF n < 10 THEN <<d[n + 1]>> ELSE Digits(n \div 10) \o <<d[(n % 10) + 1]>>

\* Number.prototype.toFixed(2): x rounded to hundredths, a tie going to the
\* greater magnitude, with the sign of x.
toFixed2(x) ==
  IF x.kind = "NaN" THEN <<"N", "a", "N">>
  ELSE IF x.kind # "finite" THEN <<x.kind>>
  ELSE LET n == (2 * 100 * Abs(x.num) + Abs(x.den)) \div (2 * Abs(x.den))
       IN  (IF x.num < 0 THEN <<"-">> ELSE <<>>)
           \o Digits(n \div 100) \o <<".">>
           \o Digits((n % 100) \div 10) \o Digits(n % 10)

ChargeFns == {"calculateTotalCharge", "calculateTotalChargeFormatted"}

InitCharge ==
  /\ fn \in ChargeFns
  /\ data \in ChargeData
  /\ startTime = 0
  /\ endTime = 0
  /\ str = <<>>
  /\ Locals0

\* forEach: the entry's duration is negative, the assertion fails.
ChargeAssertFail ==
  /\ pc = "call"
  /\ fn \in ChargeFns
  /\ i < Len(data)
  /\ ~DurationOk(At(data, i).endTime - At(data, i).startTime)
  /\ err' = "AssertionError"
  /\ pc' = "threw"
  /\ UNCHANGED <<fn, data, startTime, endTime, str, left, right, found,
                 startIndex, searches, i, total, derivative, ret>>

\* forEach: add the entry's charge to total.
ChargeStep ==
  /\ pc = "call"
  /\ fn \in ChargeFns
  /\ i < Len(data)
  /\ LET d == At(data, i)
         durationMs == d.endTime - d.startTime
     IN  /\ DurationOk(durationMs)
         /\ total' = Add(total, DivInt(d.value, Hz(durationMs)))
  /\ i' = i + 1
  /\ UNCHANGED <<fn, data, startTime, endTime, str, pc, left, right, found,
                 startIndex, searches, derivative, ret, err>>

\* calculateTotalCharge: return the total in mAh.
ChargeReturn ==
  /\ pc = "call"
  /\ fn = "calculateTotalCharge"
  /\ i >= Len(data)
  /\ ret' = DivBy(total, SECS_IN_MIN * MINS_IN_HOUR)
  /\ pc' = "done"
  /\ UNCHANGED <<fn, data, startTime, endTime, str, left, right, found,
                 startIndex, searches, i, total, derivative, err>>

\* calculateTotalChargeFormatted: return the total in mAh, formatted.
ChargeFormattedReturn ==
  /\ pc = "call"
  /\ fn = "calculateTotalChargeFormatted"
  /\ i >= Len(data)
  /\ ret' = toFixed2(DivBy(total, SECS_IN_MIN * MINS_IN_HOUR))
  /\ pc' = "done"
  /\ UNCHANGED <<fn, data, startTime, endTime, str, left, right, found,
                 startIndex, searches, i, total, derivative, err>>

NextCharge ==
  \/ ChargeAssertFail
  \/ ChargeStep
  \/ ChargeReturn
  \/ ChargeFormattedReturn

SpecCharge == InitCharge /\ [][NextCharge]_vars

----------------------------------------------------------------------------
(* generateDerivative. *)

\* At most MaxLenDerivative entries in the data of generateDerivative.
MaxLenDerivative == 3

DerivativeData ==
  SeqsUpTo({Entry(s, s, v) : s \in 0..MaxTimeAny, v \in Values},
           MaxLenDerivative)

\* Variant of DerivativeEntry that divides without testing dx.
DerivativeEntry_NoZeroCheck(cur, next) ==
  [startTime |-> cur.startTime,
   endTime |-> next.startTime,
   value |-> DivInt(next.value - cur.value,
                    Frac(next.startTime - cur.startTime, MSECS_IN_HOUR))]

\* The entry pushed for the consecutive entries cur and next.
DerivativeEntry(cur, next) ==
  LET dy == next.value - cur.value
      dxMs == next.startTime - cur.startTime
  IN  [startTime |-> cur.startTime,
       endTime |-> next.startTime,
       value |-> IF dxMs = 0 THEN Num(0)
                 ELSE DivInt(dy, Frac(dxMs, MSECS_IN_HOUR))]

InitDerivative ==
  /\ fn = "generateDerivative"
  /\ data \in DerivativeData
  /\ startTime = 0
  /\ endTime = 0
  /\ str = <<>>
  /\ Locals0

\* forEach: the last entry has no successor and is skipped.
DerivativeSkipLast ==
  /\ pc = "call"
  /\ fn = "generateDerivative"
  /\ i < Len(data)
  /\ i = Len(data) - 1
  /\ i' = i + 1
  /\ UNCHANGED <<fn, data, startTime, endTime, str, pc, left, right, found,
                 startIndex, searches, total, derivative, ret, err>>

\* forEach: push the derivative between entry i and entry i + 1.
DerivativeStep ==
  /\ pc = "call"
  /\ fn = "generateDerivative"
  /\ i < Len(data)
  /\ i # Len(data) - 1
  /\ derivative' = Append(derivative,
                          DerivativeEntry(At(data, i), At(data, i + 1)))
  /\ i' = i + 1
  /\ UNCHANGED <<fn, data, startTime, endTime, str, pc, left, right, found,
                 startIndex, searches, total, ret, err>>

DerivativeReturn ==
  /\ pc = "call"
  /\ fn = "generateDerivative"
  /\ i >= Len(data)
  /\ ret' = derivative
  /\ pc' = "done"
  /\ UNCHANGED <<fn, data, startTime, endTime, str, left, right, found,
                 startIndex, searches, i, total, derivative, err>>

NextDerivative ==
  \/ DerivativeSkipLast
  \/ DerivativeStep
  \/ DerivativeReturn

SpecDerivative == InitDerivative /\ [][NextDerivative]_vars

----------------------------------------------------------------------------
(* toValidID.  A string is a sequence of characters; the characters are    *)
(* representatives of the classes the regular expression and toLowerCase   *)
(* tell apart.  "Kelvin" is U+212A, whose lower case is k; "LongS" is      *)
(* U+017F, whose upper case is S.                                          *)

\* Strings of at most MaxStrLen characters.
MaxStrLen == 3

Chars == {"a", "z", "B", "Y", "7", "_", "-", " ", "!", "Kelvin", "LongS"}

\* String.prototype.toUpperCase of one character.
UpperChar(c) ==
  CASE c = "a" -> "A"
    [] c = "z" -> "Z"
    [] c = "b" -> "B"
    [] c = "y" -> "Y"
    [] c = "k" -> "K"
    [] c = "s" -> "S"
    [] c = "LongS" -> "S"
    [] OTHER -> c

\* String.prototype.toLowerCase of one character.
LowerChar(c) ==
  CASE c = "A" -> "a"
    [] c = "Z" -> "z"
    [] c = "B" -> "b"
    [] c = "Y" -> "y"
    [] c = "K" -> "k"
    [] c = "S" -> "s"
    [] c = "Kelvin" -> "k"
    [] OTHER -> c

Ascii == {"a", "z", "b", "y", "k", "s", "A", "Z", "B", "Y", "K", "S", "7",
          "_", "-", " ", "!"}

\* Canonicalize of a case-insensitive, non-unicode regular expression: the
\* upper case of the character, unless that maps a non-ASCII character to
\* an ASCII one.
Canonicalize(c) ==
  IF c \notin Ascii /\ UpperChar(c) \in Ascii THEN c ELSE UpperChar(c)

\* The canonicalized members of the class [a-z0-9_\-] among the characters
\* of the model.
ClassCanon == {"A", "Z", "B", "Y", "S", "K", "7", "_", "-"}

\* Whether c matches /[^a-z0-9_\-]/i.
MatchesInvalid(c) == Canonicalize(c) \notin ClassCanon

\* str.replace(/[^a-z0-9_\-]/ig, '')
RECURSIVE RemoveInvalid(_)
RemoveInvalid(s) ==
  IF s = <<>> THEN <<>>
  ELSE (IF MatchesInvalid(Head(s)) THEN <<>> ELSE <<Head(s)>>)
       \o RemoveInvalid(Tail(s))

\* String.prototype.toLowerCase
toLowerCase(s) == [k \in DOMAIN s |-> LowerChar(s[k])]

\* Variant of toValidID that does not convert to lower case.
toValidID_NoLower(s) == RemoveInvalid(s)

toValidID(s) == toLowerCase(RemoveInvalid(s))

InitID ==
  /\ fn = "toValidID"
  /\ data = <<>>
  /\ startTime = 0
  /\ endTime = 0
  /\ str \in SeqsUpTo(Chars, MaxStrLen)
  /\ Locals0

CallToValidID ==
  /\ pc = "call"
  /\ fn = "toValidID"
  /\ ret' = toValidID(str)
  /\ pc' = "done"
  /\ UNCHANGED <<fn, data, startTime, endTime, str, left, right, found,
                 startIndex, searches, i, total, derivative, err>>

NextID == CallToValidID

SpecID == InitID /\ [][NextID]_vars


----------------------------------------------------------------------------
(* Properties of the range filters. *)

\* The set of indices a returned array refers to.
Idx(s) == {s[j] : j \in DOMAIN s}

Indices(d) == 0..(Len(d) - 1)

\* The ordering invariant as the documentation of the data model words it:
\* sorted ascending by startTime, each endTime >= startTime and equal to or
\* preceding the next startTime.
IsOrdered(d) ==
  /\ \A k \in DOMAIN d : d[k].endTime >= d[k].startTime
  /\ \A k \in 1..(Len(d) - 1) :
       /\ d[k].startTime <= d[k + 1].startTime
       /\ d[k].endTime <= d[k + 1].startTime

\* Contiguous in the strict sense: every entry has a positive duration and
\* ends exactly where the next one starts.
IsContiguous(d) ==
  /\ \A k \in DOMAIN d : d[k].endTime > d[k].startTime
  /\ \A k \in 1..(Len(d) - 1) : d[k].endTime = d[k + 1].startTime

DoneRange == pc = "done" /\ fn = "inTimeRange"
DoneMulti == pc = "done" /\ fn = "inTimeRangeMulti"

\* The query touches entry d at a boundary.
Touches(d) == endTime = d.startTime \/ startTime = d.endTime

\* The half-open intervals [d.startTime, d.endTime) and
\* [startTime, endTime) have a point in common.
HalfOpenOverlap(d) ==
  Max(d.startTime, startTime) < Min(d.endTime, endTime)

\* The closed ranges spanned by the end points of d and of the query have a
\* point in common (then they have an end point in common).
SpansMeet(d) ==
  \E t \in {d.startTime, d.endTime, startTime, endTime} :
    /\ Min(d.startTime, d.endTime) <= t
    /\ t <= Max(d.startTime, d.endTime)
    /\ Min(startTime, endTime) <= t
    /\ t <= Max(startTime, endTime)

MultiResult == Idx(inTimeRangeMulti(startTime, endTime, data).ret)

\* r refers to consecutive entries of data, in their order.
IsSlice(r) ==
  /\ \A j \in DOMAIN r : r[j] \in Indices(data)
  /\ \A j \in 1..(Len(r) - 1) : r[j + 1] = r[j] + 1

\* r refers to entries of data in their order, each at most once.
IsSubsequence(r) ==
  /\ \A j \in DOMAIN r : r[j] \in Indices(data)
  /\ \A j \in 1..(Len(r) - 1) : r[j] < r[j + 1]

\* C1, as claimed: for every query and every data sorted by startTime with
\* endTime >= startTime and endTime <= the next startTime, inTimeRange and
\* inTimeRangeMulti return the same set of entries.
C1_OriginalEquivalence ==
  DoneRange /\ IsOrdered(data) => Idx(ret) = MultiResult

\* C1, amended: for every query with startTime <= endTime and every data
\* whose entries have positive durations and each end exactly where the
\* next starts, inTimeRange and inTimeRangeMulti return the same set of
\* entries.
C1_Equivalence ==
  DoneRange /\ IsContiguous(data) /\ startTime <= endTime
    => Idx(ret) = MultiResult

\* C1 witness: both searches ran on three contiguous entries and a proper
\* query selected two of them.
C1_Witness ==
  /\ DoneRange
  /\ IsContiguous(data)
  /\ Len(data) = 3
  /\ startTime < endTime
  /\ searches = 2
  /\ Len(ret) = 2

ExcludesTouching ==
  \A k \in Indices(data) : Touches(At(data, k)) => k \notin Idx(ret)

\* C2, as claimed: an entry the query touches at a boundary (endTime equal
\* to its startTime, or startTime equal to its endTime) is not returned by
\* inTimeRange on data satisfying the ordering invariant, nor by
\* inTimeRangeMulti on any data.
C2_OriginalExclusive ==
  /\ DoneRange /\ IsOrdered(data) => ExcludesTouching
  /\ DoneMulti => ExcludesTouching

\* C2, amended: such an entry is not returned by inTimeRange on data whose
\* entries have positive durations and each end exactly where the next
\* starts, nor by inTimeRangeMulti on any data.
C2_Exclusive ==
  /\ DoneRange /\ IsContiguous(data) => ExcludesTouching
  /\ DoneMulti => ExcludesTouching

\* C2 witness: inTimeRange searched contiguous data, returned something,
\* and the query ends where some entry starts.
C2_Witness ==
  /\ DoneRange
  /\ IsContiguous(data)
  /\ searches = 2
  /\ ret # <<>>
  /\ \E k \in Indices(data) : endTime = At(data, k).startTime

\* The documented scenario on [{0,10},{10,20},{20,30}].
ExampleHolds ==
  DoneRange /\ data = ExampleData =>
    /\ startTime = 5 /\ endTime = 15 => ret = <<0, 1>>
    /\ startTime = 10 /\ endTime = 20 => ret = <<1>>
    /\ startTime = 20 /\ endTime = 20 => ret = <<>>

\* C3, as claimed: on data satisfying the ordering invariant inTimeRange
\* returns a slice of data, in order, of exactly the entries whose
\* half-open interval overlaps the half-open query; and the documented
\* scenario.
C3_OriginalSlice ==
  /\ DoneRange /\ IsOrdered(data) =>
       /\ IsSlice(ret)
       /\ Idx(ret) = {k \in Indices(data) : HalfOpenOverlap(At(data, k))}
  /\ ExampleHolds

\* C3, amended: on data whose entries have positive durations and each end
\* exactly where the next starts, inTimeRange returns a slice of data, in
\* order, of exactly the entries with startTime < queryEnd and
\* queryStart < endTime; for queryStart < queryEnd those are the entries
\* whose half-open interval overlaps the half-open query; and the
\* documented scenario.
C3_Slice ==
  /\ DoneRange /\ IsContiguous(data) =>
       /\ IsSlice(ret)
       /\ Idx(ret) = {k \in Indices(data) :
                        /\ At(data, k).startTime < endTime
                        /\ startTime < At(data, k).endTime}
       /\ startTime < endTime =>
            Idx(ret) = {k \in Indices(data) : HalfOpenOverlap(At(data, k))}
  /\ ExampleHolds

\* C3 witness: the documented query (5, 15) returned entries 0 and 1.
C3_Witness ==
  /\ DoneRange
  /\ data = ExampleData
  /\ startTime = 5
  /\ endTime = 15
  /\ ret = <<0, 1>>

\* C4, as claimed: inTimeRangeMulti returns exactly the entries whose
\* half-open interval has a non-empty intersection with the half-open
\* query and does not touch it at a boundary.
C4_OriginalOverlap ==
  DoneMulti =>
    Idx(ret) = {k \in Indices(data) :
                  HalfOpenOverlap(At(data, k)) /\ ~Touches(At(data, k))}

\* C4, amended: inTimeRangeMulti returns exactly the entries d for which
\* the closed ranges spanned by the end points of d and of the query have a
\* point in common and neither queryEnd = d.startTime nor
\* queryStart = d.endTime; for queryStart < queryEnd and
\* d.startTime < d.endTime those are the entries whose half-open interval
\* overlaps the half-open query.
C4_Overlap ==
  DoneMulti =>
    /\ IsSubsequence(ret)
    /\ Idx(ret) = {k \in Indices(data) :
                     SpansMeet(At(data, k)) /\ ~Touches(At(data, k))}
    /\ \A k \in Indices(data) :
         startTime < endTime /\ At(data, k).startTime < At(data, k).endTime
           => (k \in Idx(ret) <=> HalfOpenOverlap(At(data, k)))

\* C4 witness: an entry of no duration strictly inside the query was
\* returned, from unsorted data.
C4_Witness ==
  /\ DoneMulti
  /\ ~IsOrdered(data)
  /\ \E k \in Idx(ret) :
       /\ At(data, k).startTime = At(data, k).endTime
       /\ startTime < At(data, k).startTime
       /\ At(data, k).startTime < endTime

\* C5: inTimeRange returns [] for empty data, and for non-empty data
\* whenever startTime >= the last endTime or endTime <= the first
\* startTime, having begun no binary search.
C5_BoundaryEmpty ==
  DoneRange =>
    IF Len(data) = 0
    THEN ret = <<>> /\ searches = 0
    ELSE (\/ startTime >= At(data, Len(data) - 1).endTime
          \/ endTime <= At(data, 0).startTime)
           => ret = <<>> /\ searches = 0

\* C5 witness: a query starting exactly at the last endTime of three
\* entries returned [].
C5_Witness ==
  /\ DoneRange
  /\ Len(data) = 3
  /\ startTime = At(data, 2).endTime
  /\ endTime > At(data, 0).startTime
  /\ ret = <<>>

\* C6: on any data and any query, inverted ones included, neither filter
\* throws or reads outside data, what it returns refers to entries of data
\* at valid indices, and every call returns.
C6_NeverFails ==
  /\ [](/\ err = "none"
        /\ pc \in {"call", "searchStart", "searchEnd", "done"}
        /\ pc \in {"searchStart", "searchEnd"} =>
             0 <= left /\ left <= right /\ right <= Len(data)
        /\ pc = "done" => \A j \in DOMAIN ret : ret[j] \in Indices(data))
  /\ <>(pc = "done")

\* C6 witness: inTimeRange ran both searches on data that is not ordered,
\* for a query with queryEnd <= queryStart, and returned entries.
C6_Witness ==
  /\ DoneRange
  /\ ~IsOrdered(data)
  /\ endTime <= startTime
  /\ searches = 2
  /\ ret # <<>>

\* C7: no step of either filter changes data, and what is returned refers
\* to entries of data in their original order, each at most once.
C7_NoMutation ==
  /\ [][data' = data]_vars
  /\ [](pc = "done" => IsSubsequence(ret))

\* C7 witness: inTimeRange returned two entries of its data.
C7_Witness ==
  /\ DoneRange
  /\ searches = 2
  /\ Len(ret) >= 2

----------------------------------------------------------------------------
(* Properties of calculateTotalCharge, generateDerivative and toValidID. *)

HasNegativeDuration(d) == \E k \in DOMAIN d : d[k].endTime < d[k].startTime

\* C8: calculateTotalCharge and calculateTotalChargeFormatted end in an
\* assertion error, returning nothing, when some entry has
\* endTime < startTime, and return without an error otherwise.
C8_AssertNegative ==
  pc \in {"done", "threw"} =>
    IF HasNegativeDuration(data)
    THEN pc = "threw" /\ err = "AssertionError" /\ ret = Undefined
    ELSE pc = "done" /\ err = "none"

\* C8 witness: calculateTotalChargeFormatted failed at its second entry.
C8_Witness ==
  /\ fn = "calculateTotalChargeFormatted"
  /\ pc = "threw"
  /\ i = 1

\* C9: generateDerivative returns data.length - 1 entries for non-empty
\* data and none for empty data; entry k starts at data[k].startTime, ends
\* at data[k+1].startTime, and has value 0 when the two are equal.
C9_Derivative ==
  pc = "done" =>
    /\ Len(ret) = IF Len(data) = 0 THEN 0 ELSE Len(data) - 1
    /\ \A k \in DOMAIN ret :
         /\ ret[k].startTime = data[k].startTime
         /\ ret[k].endTime = data[k + 1].startTime
         /\ data[k + 1].startTime = data[k].startTime
              => ret[k].value = Num(0)

\* C9 witness: three entries, two of them at the same startTime with
\* different values.
C9_Witness ==
  /\ pc = "done"
  /\ Len(data) = 3
  /\ Len(ret) = 2
  /\ data[1].startTime = data[2].startTime
  /\ data[1].value # data[2].value

\* The lower-case letters, digits, underscore and hyphen of the model.
ValidChars == {"a", "z", "b", "y", "k", "s", "7", "_", "-"}

\* C10: toValidID of a result of toValidID is that result, and the result
\* has only characters of [a-z0-9_-].
C10_Idempotent ==
  pc = "done" =>
    /\ toValidID(ret) = ret
    /\ \A k \in DOMAIN ret : ret[k] \in ValidChars

\* C10 witness: an upper-case letter was lowered and a space and the
\* Kelvin sign were removed.
C10_Witness ==
  /\ pc = "done"
  /\ str = <<"B", " ", "Kelvin">>
  /\ ret = <<"b">>

============================================================================
